---- MODULE Spec2Model ----
(***************************************************************************)
(* Model of the darkmode crate (src/src/lib.rs): the one-shot read         *)
(* detect() with its version fallback, and subscribe(call_back) with its   *)
(* initial read, signal filter and background processing loop.             *)
(*                                                                         *)
(* One application thread (the caller) runs either detect() or subscribe().*)
(* The settings portal and the session bus are the environment: they       *)
(* answer or fail each request, change the setting and broadcast signals.  *)
(***************************************************************************)
EXTENDS Integers, Sequences, FiniteSets, TLC

(* ---------------------------- bounds ---------------------------------- *)
\* SettingChanged signals broadcast in one behaviour
MaxSignals == 2
\* changes of the service's color-scheme value in one behaviour
MaxChanges == 1
\* mode_from_u32 is applied to every raw value from 0 up to this one
MaxRaw == 60
\* calls of subscribe in one behaviour of the specification with several calls
NumSubs == 2
\* SettingChanged signals broadcast in one behaviour of that specification
MaxBroadcasts == 2

(* --------------------------- constants -------------------------------- *)
INTERFACE == "org.freedesktop.portal.Settings"
NAMESPACE == "org.freedesktop.appearance"
COLOR_SCHEME == "color-scheme"
\* a namespace and a key of unrelated settings multiplexed on the same signal
OtherNamespace == "org.gnome.desktop.interface"
OtherKey == "contrast"

\* the u32 values the service may hold for color-scheme
WireValues == {0, 1, 2, 3}
\* the values of the service's "version" property
VersionValues == {1, 2, 3}
\* the unsigned payloads of broadcast signals, a u64 written as hi * 2^32 + lo
\* (the last one, 2^32 + 1, does not fit in 32 bits)
SignalValues == {<<0, 1>>, <<0, 2>>, <<1, 1>>}

(* ------------------------------ Mode ---------------------------------- *)
Mode == {"Default", "Dark", "Light"}

\* variant: the two recognised values exchanged
mode_from_u32_Swapped(mode) ==
    CASE mode = 1 -> "Light"
      [] mode = 2 -> "Dark"
      [] OTHER    -> "Default"

mode_from_u32(mode) ==
    CASE mode = 1 -> "Dark"
      [] mode = 2 -> "Light"
      [] OTHER    -> "Default"

(* ----------------------------- Result --------------------------------- *)
Pending == [state |-> "pending", val |-> "none"]
Ok(v) == [state |-> "Ok", val |-> v]
Err(e) == [state |-> "Err", val |-> e]

\* Error::new / From<dbus::Error>: the opaque error wrapping its cause
Error_new(cause) == "Error(" \o cause \o ")"

(* ---------------------- wire values and replies ----------------------- *)
\* a dynamically typed wire value (Variant<Box<dyn RefArg>>)
UInt(hi, lo) == [tag |-> "uint", hi |-> hi, lo |-> lo]
Str == [tag |-> "str", hi |-> 0, lo |-> 0]

\* the reply of ReadOne: the tuple (Variant(v),)
ModernReply(v) == << <<v>> >>
\* the reply of Read: the tuple (Variant(Variant(v)),)
LegacyReply(v) == << << <<v>> >> >>

\* the pattern Ok((Variant(color_scheme),))
UnwrapModern(reply) == reply[1][1]
\* the projections .0 .0 .0
UnwrapLegacy(reply) == reply[1][1][1]

\* variants of the guard with the bound off by one
VersionAllowsFallback_Below1(version) == version < 1
VersionAllowsFallback_UpTo2(version) == version <= 2

\* the guard of the fallback arm: version < 2
VersionAllowsFallback(version) == version < 2

\* the result of a method call: the reply tuple, or the cause of its failure
NotCalled == [state |-> "pending", reply |-> <<>>, cause |-> ""]
Replied(reply) == [state |-> "Ok", reply |-> reply, cause |-> ""]
Failed(cause) == [state |-> "Err", reply |-> <<>>, cause |-> cause]

\* variant: the guarded wildcard arm written before the Ok arm
OkArmTaken_GuardFirst(cs) == FALSE

\* the match on color_scheme tries the arm Ok((Variant(color_scheme),)) first
OkArmTaken(cs) == cs.state = "Ok"

\* variant: a failed lookup handled like a false guard
VersionLookupError_Original(cs, versionCause) == Error_new(cs.cause)

\* the error detect returns when the version lookup itself fails: the `?`
\* inside the guard returns the error of the lookup, not the one of ReadOne
VersionLookupError(cs, versionCause) == Error_new(versionCause)

\* variant: the last arm written as _ => Ok(Mode::default())
LastArm_Default(cs) == Ok("Default")

\* the arms left when the guard is false: Err(e) => Err(e.into())
LastArm(cs) ==
    IF cs.state = "Ok"
      THEN Ok(mode_from_u32(UnwrapModern(cs.reply)))
      ELSE Err(Error_new(cs.cause))

\* variant: call_back(detect().unwrap_or_default()), no early return
Propagate_Never(res) == FALSE

\* the `?` of call_back(detect()?): an Err returns early from subscribe
Propagate(res) == res.state = "Err"

(* ----------------------------- signals -------------------------------- *)
Sig(ns, key, val) == [wf |-> TRUE, ns |-> ns, key |-> key, val |-> val]
\* a SettingChanged message whose arguments are not (string, string, variant)
Malformed == [wf |-> FALSE, ns |-> "", key |-> "", val |-> Str]
NoSignal == [wf |-> FALSE, ns |-> "-", key |-> "-", val |-> Str]

NoiseSignals ==
    { Sig(NAMESPACE, COLOR_SCHEME, Str),
      Sig(OtherNamespace, COLOR_SCHEME, UInt(0, 1)),
      Sig(NAMESPACE, OtherKey, UInt(0, 1)),
      Malformed }

Signals ==
    { Sig(NAMESPACE, COLOR_SCHEME, UInt(n[1], n[2])) : n \in SignalValues } \cup NoiseSignals

\* SettingChanged::read: the three arguments are read or the read fails
SettingChanged_read(msg) == msg.wf

\* RefArg::as_u64 on the payload: Some(n) for an unsigned integer, else None
HasU64(val) == val.tag = "uint"
as_u64(val) == [hi |-> val.hi, lo |-> val.lo]

\* variant: value as u32, the low 32 bits
try_into_u32_or_default_Truncate(value) == value.lo

\* value.try_into().unwrap_or_default(): u64 to u32, 0 when it does not fit
try_into_u32_or_default(value) == IF value.hi = 0 THEN value.lo ELSE 0

\* variant: the key is not compared
HandlerCalls_AnyKey(msg) ==
    /\ msg.ns = NAMESPACE
    /\ HasU64(msg.val)

\* the conditions under which the filter closure calls call_back
HandlerCalls(msg) ==
    /\ msg.ns = NAMESPACE
    /\ msg.key = COLOR_SCHEME
    /\ HasU64(msg.val)

\* the Mode the filter closure passes to call_back
HandlerMode(msg) == mode_from_u32(try_into_u32_or_default(as_u64(msg.val)))

\* variant: the closure ends in false, which unregisters the filter
HandlerReturn_False == FALSE

\* the value the filter closure returns: true keeps the filter registered
HandlerReturn == TRUE

(* --------------------- statement order of subscribe ------------------- *)
\* variant: the initial call left out
SubscribeOrder_NoInitial == <<"detect", "proxy", "match_signal", "spawn", "return">>
\* variant: the worker spawned before the filter is registered
SubscribeOrder_SpawnFirst == <<"detect", "call_back", "proxy", "spawn", "match_signal", "return">>
\* variant: the initial call made after the worker is spawned
SubscribeOrder_InitialLast == <<"detect", "proxy", "match_signal", "spawn", "call_back", "return">>

SubscribeOrder == <<"detect", "call_back", "proxy", "match_signal", "spawn", "return">>

IndexOf(seq, x) == CHOOSE i \in 1..Len(seq) : seq[i] = x
After(stage) == SubscribeOrder[IndexOf(SubscribeOrder, stage) + 1]

(* ------------------------------ state --------------------------------- *)
VARIABLES
    svcValue,      \* the service's current color-scheme value
    op,            \* the API function the caller runs: "none", "detect", "subscribe"
    pc,            \* the caller's position
    color_scheme,  \* detect's local: the result of the ReadOne call
    detectRes,     \* the result of detect()
    ret,           \* the result returned to the application
    requests,      \* the requests issued through detect's proxy, in order
    cbLog,         \* the invocations of call_back, in order of their start
    filter,        \* the signal filter is registered on the subscription connection
    queue,         \* signals received by the subscription connection, not yet processed
    received,      \* signals popped by the processing loop, in order
    wpc,           \* the worker's position: "none", "loop", "call_back"
    procResult,    \* the result of the last connection.process call, discarded by the loop
    nEmitted,      \* signals broadcast so far
    nChanges,      \* changes of svcValue so far
    failedAt,      \* messages popped before the latest failed process call, -1 if none failed
    codecIn,       \* the argument of a direct application of mode_from_u32
    codecOut,      \* its result, "none" before the application
    mpc,           \* several calls of subscribe: the position of each call
    mret,          \* what each call returned: "pending", "Ok", "Err"
    mfilters,      \* the calls whose filter closure is registered on each connection
    minbox,        \* the signals routed to each connection, in order of receipt
    mpopped,       \* how many of them the connection's process calls have popped
    mspawned,      \* the number of workers each call has spawned
    mlog,          \* the invocations of each call's call_back
    mEmitted       \* signals broadcast so far

\* the state of detect() and of one call of subscribe()
mainVars == <<svcValue, op, pc, color_scheme, detectRes, ret, requests, cbLog,
              filter, queue, received, wpc, procResult, nEmitted, nChanges, failedAt>>

\* the state used only by the other specifications below
codecVars == <<codecIn, codecOut>>
multiVars == <<mpc, mret, mfilters, minbox, mpopped, mspawned, mlog, mEmitted>>
auxVars == <<codecVars, multiVars>>

vars == <<mainVars, auxVars>>

envVars == <<svcValue, nEmitted, nChanges>>
workerVars == <<queue, received, wpc, procResult, failedAt>>

Req(name, ok, val) == [name |-> name, ok |-> ok, val |-> val]
Invocation(by, mode, sig) == [by |-> by, mode |-> mode, sig |-> sig]

\* nothing has been called yet
Quiet ==
    /\ op = "none"
    /\ pc = "idle"
    /\ color_scheme = NotCalled
    /\ detectRes = Pending
    /\ ret = Pending
    /\ requests = <<>>
    /\ cbLog = <<>>
    /\ filter = FALSE
    /\ queue = <<>>
    /\ received = <<>>
    /\ wpc = "none"
    /\ procResult = "none"
    /\ nEmitted = 0
    /\ nChanges = 0
    /\ failedAt = -1

\* mode_from_u32 has not been applied directly
CodecIdle ==
    /\ codecIn = 0
    /\ codecOut = "none"

\* the calls of subscribe
Subs == 1..NumSubs

\* no call of the specification with several calls has started
MultiIdle ==
    /\ mpc = [s \in Subs |-> "idle"]
    /\ mret = [s \in Subs |-> "pending"]
    /\ mfilters = [c \in Subs |-> {}]
    /\ minbox = [c \in Subs |-> <<>>]
    /\ mpopped = [c \in Subs |-> 0]
    /\ mspawned = [s \in Subs |-> 0]
    /\ mlog = [s \in Subs |-> <<>>]
    /\ mEmitted = 0

Init ==
    /\ svcValue \in WireValues
    /\ Quiet
    /\ CodecIdle
    /\ MultiIdle

(* ----------------------------- detect() ------------------------------- *)
\* the application calls detect() or subscribe(call_back)
Call ==
    /\ pc = "idle"
    /\ \E o \in {"detect", "subscribe"} : op' = o
    /\ pc' = "new_session"
    /\ UNCHANGED <<color_scheme, detectRes, ret, requests, cbLog, filter>>
    /\ UNCHANGED envVars
    /\ UNCHANGED workerVars
    /\ UNCHANGED auxVars

\* detect finishes with result r
Detected(r) ==
    /\ detectRes' = r
    /\ pc' = "detected"

\* let proxy = proxy()?;
DetectProxy ==
    /\ pc = "new_session"
    /\ \/ /\ pc' = "ReadOne"
          /\ UNCHANGED detectRes
       \/ Detected(Err(Error_new("new_session")))
    /\ UNCHANGED <<op, color_scheme, ret, requests, cbLog, filter>>
    /\ UNCHANGED envVars
    /\ UNCHANGED workerVars
    /\ UNCHANGED auxVars

\* the ReadOne call and the first arm of the match
DetectReadOne ==
    /\ pc = "ReadOne"
    /\ \/ /\ requests' = Append(requests, Req("ReadOne", TRUE, svcValue))
          /\ color_scheme' = Replied(ModernReply(svcValue))
       \/ /\ requests' = Append(requests, Req("ReadOne", FALSE, 0))
          /\ color_scheme' = Failed("ReadOne")
    /\ IF OkArmTaken(color_scheme')
         THEN Detected(Ok(mode_from_u32(UnwrapModern(color_scheme'.reply))))
         ELSE pc' = "version" /\ UNCHANGED detectRes
    /\ UNCHANGED <<op, ret, cbLog, filter>>
    /\ UNCHANGED envVars
    /\ UNCHANGED workerVars
    /\ UNCHANGED auxVars

\* the guard proxy.get::<u32>(.., "version")? < 2 and the arm Err(e) => Err(e.into())
DetectVersion ==
    /\ pc = "version"
    /\ \/ \E version \in VersionValues :
            /\ requests' = Append(requests, Req("version", TRUE, version))
            /\ IF VersionAllowsFallback(version)
                 THEN pc' = "Read" /\ UNCHANGED detectRes
                 ELSE Detected(LastArm(color_scheme))
       \/ /\ requests' = Append(requests, Req("version", FALSE, 0))
          /\ Detected(Err(VersionLookupError(color_scheme, "version")))
    /\ UNCHANGED <<op, color_scheme, ret, cbLog, filter>>
    /\ UNCHANGED envVars
    /\ UNCHANGED workerVars
    /\ UNCHANGED auxVars

\* the legacy Read call of the fallback arm
DetectRead ==
    /\ pc = "Read"
    /\ \/ /\ requests' = Append(requests, Req("Read", TRUE, svcValue))
          /\ Detected(Ok(mode_from_u32(UnwrapLegacy(LegacyReply(svcValue)))))
       \/ /\ requests' = Append(requests, Req("Read", FALSE, 0))
          /\ Detected(Err(Error_new("Read")))
    /\ UNCHANGED <<op, color_scheme, ret, cbLog, filter>>
    /\ UNCHANGED envVars
    /\ UNCHANGED workerVars
    /\ UNCHANGED auxVars

\* detect() returns to the application
DetectReturn ==
    /\ pc = "detected"
    /\ op = "detect"
    /\ ret' = detectRes
    /\ pc' = "done"
    /\ UNCHANGED <<op, color_scheme, detectRes, requests, cbLog, filter>>
    /\ UNCHANGED envVars
    /\ UNCHANGED workerVars
    /\ UNCHANGED auxVars

(* ---------------------------- subscribe() ----------------------------- *)
\* call_back(detect()?): the `?` returns the error of the initial read
SubscribeDetected ==
    /\ pc = "detected"
    /\ op = "subscribe"
    /\ IF Propagate(detectRes)
         THEN pc' = "done" /\ ret' = detectRes
         ELSE pc' = After("detect") /\ UNCHANGED ret
    /\ UNCHANGED <<op, color_scheme, detectRes, requests, cbLog, filter>>
    /\ UNCHANGED envVars
    /\ UNCHANGED workerVars
    /\ UNCHANGED auxVars

\* the calling thread enters call_back with the initial value
SubscribeCallBack ==
    /\ pc = "call_back"
    /\ cbLog' = Append(cbLog, Invocation("caller", detectRes.val, NoSignal))
    /\ pc' = "in_call_back"
    /\ UNCHANGED <<op, color_scheme, detectRes, ret, requests, filter>>
    /\ UNCHANGED envVars
    /\ UNCHANGED workerVars
    /\ UNCHANGED auxVars

\* call_back returns to the calling thread
SubscribeCallBackReturn ==
    /\ pc = "in_call_back"
    /\ pc' = After("call_back")
    /\ UNCHANGED <<op, color_scheme, detectRes, ret, requests, cbLog, filter>>
    /\ UNCHANGED envVars
    /\ UNCHANGED workerVars
    /\ UNCHANGED auxVars

\* let proxy = proxy()?;  the connection of the subscription
SubscribeProxy ==
    /\ pc = "proxy"
    /\ \/ pc' = After("proxy") /\ UNCHANGED ret
       \/ pc' = "done" /\ ret' = Err(Error_new("new_session"))
    /\ UNCHANGED <<op, color_scheme, detectRes, requests, cbLog, filter>>
    /\ UNCHANGED envVars
    /\ UNCHANGED workerVars
    /\ UNCHANGED auxVars

\* let token = proxy.match_signal(..)?;
SubscribeMatchSignal ==
    /\ pc = "match_signal"
    /\ \/ pc' = After("match_signal") /\ filter' = TRUE /\ UNCHANGED ret
       \/ pc' = "done" /\ ret' = Err(Error_new("AddMatch")) /\ UNCHANGED filter
    /\ UNCHANGED <<op, color_scheme, detectRes, requests, cbLog>>
    /\ UNCHANGED envVars
    /\ UNCHANGED workerVars
    /\ UNCHANGED auxVars

\* thread::spawn(move || { let _ = token; loop { .. } });
SubscribeSpawn ==
    /\ pc = "spawn"
    /\ wpc' = "loop"
    /\ pc' = After("spawn")
    /\ UNCHANGED <<op, color_scheme, detectRes, ret, requests, cbLog, filter>>
    /\ UNCHANGED envVars
    /\ UNCHANGED <<queue, received, procResult, failedAt>>
    /\ UNCHANGED auxVars

\* Ok(())
SubscribeReturn ==
    /\ pc = "return"
    /\ ret' = Ok("()")
    /\ pc' = "done"
    /\ UNCHANGED <<op, color_scheme, detectRes, requests, cbLog, filter>>
    /\ UNCHANGED envVars
    /\ UNCHANGED workerVars
    /\ UNCHANGED auxVars

(* ------------------------- background worker -------------------------- *)
\* variant: loop { proxy.connection.process(..)?; }, the loop ends on an error
LoopContinues_StopOnErr(result) == result # "Err"

\* loop { _ = proxy.connection.process(..); }: the result is discarded
LoopContinues(result) == TRUE

\* the worker's position after a process call with this result
LoopAfter(result) == IF LoopContinues(result) THEN "loop" ELSE "exited"

\* variant: a value equal to the last delivered one is not delivered again
Dispatches_Dedup(msg) ==
    /\ filter /\ SettingChanged_read(msg) /\ HandlerCalls(msg)
    /\ \/ cbLog = <<>>
       \/ cbLog[Len(cbLog)].mode # HandlerMode(msg)

\* the filter closure is run on msg and calls call_back
Dispatches(msg) == filter /\ SettingChanged_read(msg) /\ HandlerCalls(msg)

\* connection.process pops one message and runs the filter on it
WorkerProcess ==
    /\ wpc = "loop"
    /\ queue # <<>>
    /\ LET msg == Head(queue) IN
         /\ queue' = Tail(queue)
         /\ received' = Append(received, msg)
         /\ IF Dispatches(msg)
              THEN /\ cbLog' = Append(cbLog, Invocation("worker", HandlerMode(msg), msg))
                   /\ wpc' = "call_back"
                   /\ UNCHANGED <<filter, procResult>>
              ELSE /\ filter' = IF filter /\ SettingChanged_read(msg) THEN HandlerReturn ELSE filter
                   /\ procResult' = "Ok(true)"
                   /\ wpc' = LoopAfter("Ok(true)")
                   /\ UNCHANGED cbLog
    /\ UNCHANGED <<op, pc, color_scheme, detectRes, ret, requests, failedAt>>
    /\ UNCHANGED envVars
    /\ UNCHANGED auxVars

\* call_back returns to the filter closure, which returns true
WorkerCallBackReturn ==
    /\ wpc = "call_back"
    /\ wpc' = LoopAfter("Ok(true)")
    /\ filter' = HandlerReturn
    /\ procResult' = "Ok(true)"
    /\ UNCHANGED <<op, pc, color_scheme, detectRes, ret, requests, cbLog, queue, received, failedAt>>
    /\ UNCHANGED envVars
    /\ UNCHANGED auxVars

\* connection.process waits one second and no message arrives
WorkerTimeout ==
    /\ wpc = "loop"
    /\ queue = <<>>
    /\ procResult' = "Ok(false)"
    /\ wpc' = LoopAfter("Ok(false)")
    /\ UNCHANGED <<op, pc, color_scheme, detectRes, ret, requests, cbLog, filter, queue, received, failedAt>>
    /\ UNCHANGED envVars
    /\ UNCHANGED auxVars

\* connection.process fails; `_ =` discards the error and the loop goes on
WorkerError ==
    /\ wpc = "loop"
    /\ procResult' = "Err"
    /\ wpc' = LoopAfter("Err")
    /\ failedAt' = Len(received)
    /\ UNCHANGED <<op, pc, color_scheme, detectRes, ret, requests, cbLog, filter, queue, received>>
    /\ UNCHANGED envVars
    /\ UNCHANGED auxVars

(* ---------------------------- environment ----------------------------- *)
\* the bus routes a broadcast to the subscription connection once its match is registered
Deliver(msg) == IF filter THEN Append(queue, msg) ELSE queue

\* a SettingChanged signal is broadcast (any setting, also a resend of the same value)
EmitSignal ==
    /\ nEmitted < MaxSignals
    /\ \E msg \in Signals : queue' = Deliver(msg)
    /\ nEmitted' = nEmitted + 1
    /\ UNCHANGED <<op, pc, color_scheme, detectRes, ret, requests, cbLog, filter>>
    /\ UNCHANGED <<svcValue, nChanges, received, wpc, procResult, failedAt>>
    /\ UNCHANGED auxVars

\* the user changes the color scheme: the service stores it and broadcasts it
ServiceChange ==
    /\ nChanges < MaxChanges
    /\ nEmitted < MaxSignals
    /\ \E v \in WireValues \ {svcValue} :
         /\ svcValue' = v
         /\ queue' = Deliver(Sig(NAMESPACE, COLOR_SCHEME, UInt(0, v)))
    /\ nChanges' = nChanges + 1
    /\ nEmitted' = nEmitted + 1
    /\ UNCHANGED <<op, pc, color_scheme, detectRes, ret, requests, cbLog, filter>>
    /\ UNCHANGED <<received, wpc, procResult, failedAt>>
    /\ UNCHANGED auxVars

(* --------------------------- specification ---------------------------- *)
Next ==
    \/ Call
    \/ DetectProxy
    \/ DetectReadOne
    \/ DetectVersion
    \/ DetectRead
    \/ DetectReturn
    \/ SubscribeDetected
    \/ SubscribeCallBack
    \/ SubscribeCallBackReturn
    \/ SubscribeProxy
    \/ SubscribeMatchSignal
    \/ SubscribeSpawn
    \/ SubscribeReturn
    \/ WorkerProcess
    \/ WorkerCallBackReturn
    \/ WorkerTimeout
    \/ WorkerError
    \/ EmitSignal
    \/ ServiceChange

Spec == Init /\ [][Next]_vars

(* ------------------ mode_from_u32 applied on its own ------------------ *)
\* raw values beyond the small ones, up to the largest integer TLC represents
LargeRaw == {65535, 65536, 2147483646, 2147483647}
RawValues == (0..MaxRaw) \cup LargeRaw

InitCodec ==
    /\ svcValue = 0
    /\ Quiet
    /\ codecIn \in RawValues
    /\ codecOut = "none"
    /\ MultiIdle

\* let m = mode_from_u32(codecIn);
ApplyModeFromU32 ==
    /\ codecOut = "none"
    /\ codecOut' = mode_from_u32(codecIn)
    /\ UNCHANGED codecIn
    /\ UNCHANGED mainVars
    /\ UNCHANGED multiVars

NextCodec == ApplyModeFromU32

SpecCodec == InitCodec /\ [][NextCodec]_vars

(* ---------------------- several calls of subscribe -------------------- *)
\* variant: one connection kept in a static and used by every call
ConnOf_Shared(s) == 1

\* proxy() opens a new session connection in every call: call s drives connection s
ConnOf(s) == s

\* the signals broadcast here: one for the color scheme, one for another key
MSignals ==
    { Sig(NAMESPACE, COLOR_SCHEME, UInt(0, 2)),
      Sig(NAMESPACE, OtherKey, UInt(0, 1)) }

Message(id, sig) == [id |-> id, sig |-> sig]
\* an invocation of call_back: by the calling thread (0) or by the worker of a call
MInvocation(by, conn, id) == [by |-> by, conn |-> conn, id |-> id]

InitMulti ==
    /\ svcValue = 0
    /\ Quiet
    /\ CodecIdle
    /\ MultiIdle

MUnchanged == UNCHANGED mainVars /\ UNCHANGED codecVars

\* a thread calls subscribe(call_back)
MCall ==
    /\ \E s \in Subs :
         /\ mpc[s] = "idle"
         /\ mpc' = [mpc EXCEPT ![s] = "detect"]
    /\ UNCHANGED <<mret, mfilters, minbox, mpopped, mspawned, mlog, mEmitted>>
    /\ MUnchanged

\* detect()? : the initial read succeeds or fails
MDetect ==
    /\ \E s \in Subs :
         /\ mpc[s] = "detect"
         /\ \E res \in {Ok("Dark"), Err(Error_new("ReadOne"))} :
              IF Propagate(res)
                THEN /\ mpc' = [mpc EXCEPT ![s] = "done"]
                     /\ mret' = [mret EXCEPT ![s] = "Err"]
                ELSE /\ mpc' = [mpc EXCEPT ![s] = After("detect")]
                     /\ UNCHANGED mret
    /\ UNCHANGED <<mfilters, minbox, mpopped, mspawned, mlog, mEmitted>>
    /\ MUnchanged

\* call_back(..) with the initial value, on the calling thread
MCallBack ==
    /\ \E s \in Subs :
         /\ mpc[s] = "call_back"
         /\ mlog' = [mlog EXCEPT ![s] = Append(@, MInvocation(0, 0, 0))]
         /\ mpc' = [mpc EXCEPT ![s] = After("call_back")]
    /\ UNCHANGED <<mret, mfilters, minbox, mpopped, mspawned, mEmitted>>
    /\ MUnchanged

\* let proxy = proxy()?;
MProxy ==
    /\ \E s \in Subs :
         /\ mpc[s] = "proxy"
         /\ \/ mpc' = [mpc EXCEPT ![s] = After("proxy")] /\ UNCHANGED mret
            \/ mpc' = [mpc EXCEPT ![s] = "done"] /\ mret' = [mret EXCEPT ![s] = "Err"]
    /\ UNCHANGED <<mfilters, minbox, mpopped, mspawned, mlog, mEmitted>>
    /\ MUnchanged

\* let token = proxy.match_signal(..)?; the closure owns this call's call_back
MMatchSignal ==
    /\ \E s \in Subs :
         /\ mpc[s] = "match_signal"
         /\ \/ /\ mpc' = [mpc EXCEPT ![s] = After("match_signal")]
               /\ mfilters' = [mfilters EXCEPT ![ConnOf(s)] = @ \cup {s}]
               /\ UNCHANGED mret
            \/ /\ mpc' = [mpc EXCEPT ![s] = "done"]
               /\ mret' = [mret EXCEPT ![s] = "Err"]
               /\ UNCHANGED mfilters
    /\ UNCHANGED <<minbox, mpopped, mspawned, mlog, mEmitted>>
    /\ MUnchanged

\* thread::spawn(..): one more worker, driving this call's connection
MSpawn ==
    /\ \E s \in Subs :
         /\ mpc[s] = "spawn"
         /\ mspawned' = [mspawned EXCEPT ![s] = @ + 1]
         /\ mpc' = [mpc EXCEPT ![s] = After("spawn")]
    /\ UNCHANGED <<mret, mfilters, minbox, mpopped, mlog, mEmitted>>
    /\ MUnchanged

\* Ok(())
MReturn ==
    /\ \E s \in Subs :
         /\ mpc[s] = "return"
         /\ mret' = [mret EXCEPT ![s] = "Ok"]
         /\ mpc' = [mpc EXCEPT ![s] = "done"]
    /\ UNCHANGED <<mfilters, minbox, mpopped, mspawned, mlog, mEmitted>>
    /\ MUnchanged

\* the worker of call s: connection.process pops one message of its connection
\* and runs every filter closure registered on that connection
MWorkerProcess ==
    /\ \E s \in Subs :
         /\ mspawned[s] > 0
         /\ LET c == ConnOf(s) IN
              /\ mpopped[c] < Len(minbox[c])
              /\ LET msg == minbox[c][mpopped[c] + 1]
                     read == SettingChanged_read(msg.sig)
                 IN /\ mpopped' = [mpopped EXCEPT ![c] = @ + 1]
                    /\ mlog' = [t \in Subs |->
                                  IF t \in mfilters[c] /\ read /\ HandlerCalls(msg.sig)
                                    THEN Append(mlog[t], MInvocation(s, c, msg.id))
                                    ELSE mlog[t]]
                    /\ mfilters' = [mfilters EXCEPT ![c] = {t \in @ : read => HandlerReturn}]
    /\ UNCHANGED <<mpc, mret, minbox, mspawned, mEmitted>>
    /\ MUnchanged

\* the bus routes a broadcast to every connection that has registered a match
MBroadcast ==
    /\ mEmitted < MaxBroadcasts
    /\ \E sig \in MSignals :
         minbox' = [c \in Subs |->
                      IF mfilters[c] # {}
                        THEN Append(minbox[c], Message(mEmitted + 1, sig))
                        ELSE minbox[c]]
    /\ mEmitted' = mEmitted + 1
    /\ UNCHANGED <<mpc, mret, mfilters, mpopped, mspawned, mlog>>
    /\ MUnchanged

NextMulti ==
    \/ MCall
    \/ MDetect
    \/ MCallBack
    \/ MProxy
    \/ MMatchSignal
    \/ MSpawn
    \/ MReturn
    \/ MWorkerProcess
    \/ MBroadcast

SpecMulti == InitMulti /\ [][NextMulti]_vars

(* ============================ properties ============================= *)
\* ModeCodec of the specification: 1 is Dark, 2 is Light, anything else Default
Decode(raw) == IF raw = 1 THEN "Dark" ELSE IF raw = 2 THEN "Light" ELSE "Default"
\* the same on an unsigned 64-bit payload hi * 2^32 + lo
DecodeU64(val) == IF val.hi = 0 THEN Decode(val.lo) ELSE "Default"

Last(seq) == seq[Len(seq)]
IsRead(r) == r.name \in {"ReadOne", "Read"}

\* ReadOne failed and the version lookup was answered
ModernFailedVersionRead ==
    /\ Len(requests) >= 2
    /\ requests[1].name = "ReadOne" /\ ~requests[1].ok
    /\ requests[2].name = "version" /\ requests[2].ok

\* ReadOne failed and the version lookup failed
ModernFailedVersionFailed ==
    /\ Len(requests) >= 2
    /\ requests[1].name = "ReadOne" /\ ~requests[1].ok
    /\ requests[2].name = "version" /\ ~requests[2].ok

\* detect() has finished
DetectFinished == pc \notin {"idle", "new_session", "ReadOne", "version", "Read"}

\* a signal the listener is meant to forward
IsMatching(msg) ==
    /\ msg.wf
    /\ msg.ns = NAMESPACE
    /\ msg.key = COLOR_SCHEME
    /\ msg.val.tag = "uint"

ByWorker(e) == e.by = "worker"
ByCaller(e) == e.by = "caller"
\* the change-driven invocations of call_back, in order
WorkerLog == SelectSeq(cbLog, ByWorker)
\* the matching signals the loop has popped, in order
MatchingReceived == SelectSeq(received, IsMatching)

\* C1: when ReadOne succeeds with wire integer v, detect() returns
\* Ok(decode(v)) and issues no further request (no version probe, no Read).
C1_ModernSuccess ==
    \A i \in 1..Len(requests) :
        (requests[i].name = "ReadOne" /\ requests[i].ok)
            => /\ Len(requests) = i
               /\ detectRes = Ok(Decode(requests[i].val))

C1_Witness ==
    /\ op = "detect" /\ pc = "done"
    /\ Len(requests) = 1 /\ requests[1].ok /\ requests[1].val = 1
    /\ ret = Ok("Dark")

\* C2: when ReadOne fails, the version reads as a value < 2 and the legacy
\* Read succeeds with v, detect() falls back and returns Ok(decode(v)).
C2_LegacyFallback ==
    (ModernFailedVersionRead /\ requests[2].val < 2)
        => IF Len(requests) = 2
             THEN pc = "Read" /\ detectRes = Pending
             ELSE /\ requests[3].name = "Read"
                  /\ requests[3].ok => detectRes = Ok(Decode(requests[3].val))

C2_Witness ==
    /\ op = "detect" /\ pc = "done"
    /\ ModernFailedVersionRead /\ requests[2].val = 1
    /\ Len(requests) = 3 /\ requests[3].ok /\ requests[3].val = 2
    /\ ret = Ok("Light")

\* C3: when ReadOne fails and the version reads as any value >= 2 (2
\* included), detect() returns the error of the ReadOne call and the legacy
\* Read is never issued.
C3_NoFallbackFromVersion2 ==
    (ModernFailedVersionRead /\ requests[2].val >= 2)
        => /\ Len(requests) = 2
           /\ detectRes = Err(Error_new("ReadOne"))

C3_Witness ==
    /\ op = "detect" /\ pc = "done"
    /\ ModernFailedVersionRead /\ requests[2].val = 2
    /\ ret = Err(Error_new("ReadOne"))

C5_NoFailureBecomesValue ==
    /\ DetectFinished => detectRes.state \in {"Ok", "Err"}
    /\ detectRes.state = "Ok"
         => /\ requests # <<>>
            /\ IsRead(Last(requests)) /\ Last(requests).ok
            /\ detectRes.val = Decode(Last(requests).val)
    /\ (DetectFinished /\ (requests = <<>> \/ ~IsRead(Last(requests)) \/ ~Last(requests).ok))
         => detectRes.state = "Err"
    /\ (op = "detect" /\ pc = "done") => ret = detectRes

C5_Witness ==
    /\ op = "detect" /\ pc = "done"
    /\ Len(requests) = 3 /\ ~requests[3].ok
    /\ ret = Err(Error_new("Read"))

\* C6: a successful subscribe(cb) invokes cb exactly once on the calling
\* thread, before it returns, with the value of its detect(); as long as no
\* matching signal is processed, cb's invocation count stays 1.
C6_InitialInvocation ==
    (op = "subscribe" /\ (pc = "return" \/ (pc = "done" /\ ret.state = "Ok")))
        => /\ Len(SelectSeq(cbLog, ByCaller)) = 1
           /\ cbLog[1] = Invocation("caller", detectRes.val, NoSignal)
           /\ detectRes.state = "Ok"
           /\ MatchingReceived = <<>> => Len(cbLog) = 1

C6_Witness ==
    /\ op = "subscribe" /\ pc = "done" /\ ret = Ok("()")
    /\ Len(cbLog) = 1
    /\ nEmitted = MaxSignals /\ Len(received) = MaxSignals /\ queue = <<>>
    /\ procResult = "Ok(false)"

\* C7: if the initial read inside subscribe(cb) fails, subscribe returns that
\* error, cb is never invoked, no filter is registered and no worker is spawned.
C7_InitialReadFails ==
    (op = "subscribe" /\ detectRes.state = "Err")
        => /\ cbLog = <<>>
           /\ ~filter
           /\ wpc = "none"
           /\ pc \in {"detected", "done"}
           /\ pc = "done" => ret = detectRes

C7_Witness ==
    /\ op = "subscribe" /\ pc = "done"
    /\ detectRes.state = "Err" /\ ret.state = "Err"
    /\ nEmitted = MaxSignals /\ nChanges = MaxChanges

\* C8: the invocation of cb with the initial value has completed before any
\* change-driven invocation begins.
C8_InitialBeforeChanges ==
    WorkerLog # <<>>
        => /\ cbLog[1].by = "caller"
           /\ pc \in {"return", "done"}

C8_Witness ==
    /\ WorkerLog # <<>>
    /\ wpc = "call_back"
    /\ pc = "return"

\* C9: the change-driven invocations of cb are exactly the matching signals
\* popped by the loop, one invocation each with decode(value), in receipt
\* order: no reordering, no coalescing, no deduplication.
C9_EveryMatchingSignalInOrder ==
    /\ Len(WorkerLog) = Len(MatchingReceived)
    /\ \A i \in 1..Len(WorkerLog) :
          /\ WorkerLog[i].sig = MatchingReceived[i]
          /\ WorkerLog[i].mode = DecodeU64(MatchingReceived[i].val)

C9_Witness ==
    /\ Len(WorkerLog) = 2
    /\ WorkerLog[1].sig = WorkerLog[2].sig
    /\ WorkerLog[1].mode = "Light" /\ WorkerLog[2].mode = "Light"

\* a step in which the loop pops a signal that is not a matching one
PopsNonMatching ==
    /\ received' # received
    /\ ~IsMatching(received'[Len(received')])

\* C10: every change-driven invocation of cb stems from a signal with the
\* fixed namespace and key and an unsigned integer value; popping any other
\* signal invokes nothing and yields no error.
C10_OnlyMatchingSignals ==
    /\ [](\A i \in 1..Len(cbLog) : ByWorker(cbLog[i]) => IsMatching(cbLog[i].sig))
    /\ [][PopsNonMatching
           => /\ cbLog' = cbLog
              /\ wpc' = "loop"
              /\ procResult' = "Ok(true)"
              /\ ret' = ret]_vars

C10_Witness ==
    /\ Len(received) = 2
    /\ received[1] = Sig(NAMESPACE, OtherKey, UInt(0, 1))
    /\ IsMatching(received[2])
    /\ Len(WorkerLog) = 1
    /\ WorkerLog[1].sig = received[2]
    /\ wpc = "loop" /\ procResult = "Ok(true)"

\* C11: a failed process call does not end the loop: after it the worker
\* keeps iterating with its filter, and every matching signal popped after
\* the failure is delivered to cb.
C11_LoopSurvivesFailure ==
    failedAt >= 0
        => /\ wpc \in {"loop", "call_back"}
           /\ filter
           /\ Len(WorkerLog) = Len(MatchingReceived)
           /\ \A i \in (failedAt + 1)..Len(received) :
                 IsMatching(received[i])
                     => \E j \in 1..Len(WorkerLog) :
                           /\ WorkerLog[j].sig = received[i]
                           /\ WorkerLog[j].mode = DecodeU64(received[i].val)

C11_Witness ==
    /\ failedAt = 0
    /\ Len(received) = 1 /\ IsMatching(received[1])
    /\ Len(WorkerLog) = 1 /\ WorkerLog[1].mode = "Light"
    /\ wpc = "loop" /\ procResult = "Ok(true)"

\* C12 as stated: detect() performs at most two IPC round trips on any
\* path, the fallback path included.
C12_Original == Len(requests) <= 2

\* C12 amended: detect() performs at most three IPC round trips on any path;
\* three are made only on the fallback path (ReadOne fails, the version
\* lookup reads a value < 2, the legacy Read is issued), at most two elsewhere.
C12_AtMostThreeRoundTrips ==
    /\ Len(requests) <= 3
    /\ Len(requests) = 3
         => /\ ModernFailedVersionRead
            /\ requests[2].val < 2
            /\ requests[3].name = "Read"

C12_Witness ==
    /\ op = "detect" /\ pc = "done"
    /\ Len(requests) = 3
    /\ requests[3].name = "Read" /\ requests[3].ok
    /\ ret.state = "Ok"

\* C13: mode_from_u32 is total over the unsigned integers and maps 1 to
\* Dark, 2 to Light and every other value, 0 and the largest ones included,
\* to Default.
C13_DecodeTable ==
    codecOut # "none"
        => /\ codecOut \in Mode
           /\ codecIn = 1 => codecOut = "Dark"
           /\ codecIn = 2 => codecOut = "Light"
           /\ codecIn \notin {1, 2} => codecOut = "Default"

C13_Witness ==
    /\ codecIn = 2147483647
    /\ codecOut = "Default"

\* subscribe has returned an error
SubscribeFailed == op = "subscribe" /\ ret.state = "Err"

\* C14: subscribe fails only in its initial read, or in opening the
\* subscription connection or registering the filter; failing in the latter
\* it spawns no worker and cb keeps its single initial invocation; once
\* subscribe has returned Ok, no error of the loop changes what it returned.
C14_OnlySetupFails ==
    /\ [](SubscribeFailed
            => /\ \/ detectRes.state = "Err" /\ ret = detectRes
                  \/ /\ detectRes.state = "Ok"
                     /\ ret.val \in {Error_new("new_session"), Error_new("AddMatch")}
                     /\ cbLog = <<Invocation("caller", detectRes.val, NoSignal)>>
               /\ wpc = "none"
               /\ procResult = "none"
               /\ received = <<>>)
    /\ [][(op = "subscribe" /\ ret.state = "Ok") => ret' = Ok("()")]_vars

C14_Witness ==
    /\ SubscribeFailed
    /\ ret = Err(Error_new("AddMatch"))
    /\ Len(cbLog) = 1
    /\ nEmitted = MaxSignals

\* C15: after subscribe has returned Ok, the filter is registered and the
\* worker is running in every later state, whatever signals were handled;
\* from the spawn on the worker never leaves the loop.
C15_SubscriptionStays ==
    /\ (op = "subscribe" /\ ret.state = "Ok") => (filter /\ wpc \in {"loop", "call_back"})
    /\ wpc # "none" => (filter /\ wpc \in {"loop", "call_back"})
    /\ received # <<>> => filter

C15_Witness ==
    /\ op = "subscribe" /\ ret = Ok("()")
    /\ Len(received) = 2
    /\ IsMatching(received[1])
    /\ received[2] = Sig(NAMESPACE, COLOR_SCHEME, Str)
    /\ filter /\ wpc = "loop"

\* C16: a matching signal whose unsigned value does not fit in 32 bits
\* invokes cb with Default: it is neither dropped nor truncated modulo 2^32
\* (2^32 + 1 yields Default, not Dark).
C16_WideValueIsDefault ==
    /\ Len(WorkerLog) = Len(MatchingReceived)
    /\ \A i \in 1..Len(MatchingReceived) :
          MatchingReceived[i].val.hi # 0
              => /\ i <= Len(WorkerLog)
                 /\ WorkerLog[i].sig = MatchingReceived[i]
                 /\ WorkerLog[i].mode = "Default"

C16_Witness ==
    /\ Len(WorkerLog) >= 1
    /\ WorkerLog[1].sig = Sig(NAMESPACE, COLOR_SCHEME, UInt(1, 1))
    /\ WorkerLog[1].mode = "Default"
    /\ wpc = "loop"

MByWorker(e) == e.by # 0
MMatching(m) == IsMatching(m.sig)
\* the change-driven invocations of the call_back of call s
MWorkerLog(s) == SelectSeq(mlog[s], MByWorker)
\* the matching signals popped from connection c
MPoppedMatching(c) == SelectSeq(SubSeq(minbox[c], 1, mpopped[c]), MMatching)

\* C17: a successful subscribe call has spawned exactly one worker and a
\* failed one none; each worker drives the connection of its own call, so
\* every matching signal popped from a call's connection is delivered once
\* to that call's cb, by that call's worker, and to no other cb.
C17_OneWorkerPerCall ==
    \A s \in Subs :
        /\ mspawned[s] <= 1
        /\ mret[s] = "Ok" => mspawned[s] = 1
        /\ mret[s] = "Err" => mspawned[s] = 0
        /\ mfilters[s] \subseteq {s}
        /\ Len(MWorkerLog(s)) = Len(MPoppedMatching(s))
        /\ \A i \in 1..Len(MWorkerLog(s)) :
              /\ MWorkerLog(s)[i].by = s
              /\ MWorkerLog(s)[i].conn = s
              /\ MWorkerLog(s)[i].id = MPoppedMatching(s)[i].id

C17_Witness ==
    /\ \A s \in Subs : mret[s] = "Ok" /\ mspawned[s] = 1
    /\ \A s \in Subs : Len(MWorkerLog(s)) = 1 /\ MWorkerLog(s)[1].id = 2
    /\ \A c \in Subs : mpopped[c] = 2

\* subscribe has returned Ok, every signal broadcast so far was a change of the
\* color scheme made by the service, and the loop has nothing left to process:
\* if the service makes no further change, cb is never invoked again
SettledAfterChanges ==
    /\ op = "subscribe" /\ ret.state = "Ok"
    /\ nEmitted = nChanges
    /\ queue = <<>>
    /\ wpc = "loop"

\* C18: after a successful subscribe(cb), once the service's color scheme has
\* stopped changing and the loop has processed what it received, the last
\* value delivered to cb is decode of the service's current value; a change
\* made between the initial read and the registration of the filter is not lost.
C18_LastValueIsCurrent ==
    SettledAfterChanges => cbLog[Len(cbLog)].mode = Decode(svcValue)

\* invocations of cb in progress
InProgress ==
    (IF pc = "in_call_back" THEN 1 ELSE 0) + (IF wpc = "call_back" THEN 1 ELSE 0)

\* C19: invocations of cb never overlap: the calling thread invokes cb only
\* before the worker is spawned, the worker only afterwards, so at most one
\* invocation of cb is in progress in any state.
C19_NoOverlap ==
    /\ InProgress <= 1
    /\ wpc # "none" => pc \in {"return", "done"}
    /\ \A i \in 1..Len(cbLog) : ByCaller(cbLog[i]) => i = 1
    /\ pc = "in_call_back" => (wpc = "none" /\ Len(cbLog) = 1)

C19_Witness ==
    /\ pc = "done" /\ ret = Ok("()")
    /\ wpc = "call_back"
    /\ Len(cbLog) = 3
    /\ InProgress = 1

TypeOK ==
    /\ svcValue \in WireValues
    /\ op \in {"none", "detect", "subscribe"}
    /\ ret.state \in {"pending", "Ok", "Err"}
    /\ wpc \in {"none", "loop", "call_back"}
    /\ Len(queue) <= MaxSignals
====
